---- MODULE Spec2Model ----
(***************************************************************************)
(* Model of src/src/service/main.rs: the USDC whale-transfer watch of an   *)
(* Internet Computer canister.                                             *)
(*                                                                         *)
(* The canister runs one message at a time; the code between two `.await`s *)
(* is one atomic step.  Every `.await` on a call that leaves the canister  *)
(* is a suspension point at which any other message (an update call, a     *)
(* timer firing, the continuation of another suspended task) can run.  A   *)
(* panic (`unwrap` on an Err) traps: the changes made since the last       *)
(* suspension point are rolled back and the task is gone.                  *)
(*                                                                         *)
(* Each action below is one such atomic step.                              *)
(*                                                                         *)
(* The callback handed to the poller (lines 149-180) is an async block:    *)
(* a firing of the timer runs it as a task of its own, which suspends in   *)
(* every await of the mint it calls.  The timer keeps its own count of the *)
(* polls it has made (`with_limit`), apart from STATE.poll_count.          *)
(*                                                                         *)
(* As written the closure hands its async block out of                     *)
(* STATE.with_borrow_mut, which the borrow checker rejects (the comment of *)
(* line 170 notes the issue).  The model follows the statements of lines   *)
(* 151-178 in their order, as they run once the head of the closure lets   *)
(* the block reach STATE: each stretch between two awaits is one step on   *)
(* STATE.  The callback is the only caller of mint_new_whale_nft and the   *)
(* only writer of logs and poll_count besides start.                       *)
(*                                                                         *)
(* The poller is library code.  A tick of its timer asks the chain for the *)
(* changes of the filter, which is a call that leaves the canister: the    *)
(* callback runs when the answer arrives, as a message of its own, and     *)
(* any other message (a stop, a start, another tick) may run in between.   *)
(* The callback itself tests nothing of the timer that delivered it.       *)
(***************************************************************************)
EXTENDS Naturals, Sequences, FiniteSets, Bags

(***************************************************************************)
(* Program constants                                                       *)
(***************************************************************************)
\* const POLL_LIMIT: usize = 3;
POLL_LIMIT == 3

\* `value > &U256::from(1_000_000)`
THRESHOLD == 1000000

(***************************************************************************)
(* Bounds of the model                                                     *)
(***************************************************************************)
\* what the environment may ask of the canister over a whole run: one unit
\* for each start call that passes the "already watching" test, one for each
\* firing of a timer, one for each qualifying event a firing hands over
MaxWork == 6
\* transaction count of the signing account when the canister is installed
InitTxCount == 5

(***************************************************************************)
(* Option<T>: None is the empty sequence, Some(x) the one-element sequence *)
(***************************************************************************)
None == << >>
Some(x) == << x >>
IsSome(o) == o # None
Unwrap(o) == o[1]

(***************************************************************************)
(* An address is the 40 hex characters that follow "0x", in the spelling   *)
(* Address::to_string() gives them.                                        *)
(***************************************************************************)
Whale1 == "aaa0000000000000000000000000000000000111"
Whale2 == "bbb0000000000000000000000000000000000222"
Receiver == "ccc0000000000000000000000000000000000333"

\* Address::to_string(): "0x" followed by the 40 hex characters
to_string(a) == "0x" \o a

\* format!("0x{}...{}", &s[2..5], &s[s.len() - 3..])
ShortFmt(a) ==
    LET s == to_string(a)
    IN  "0x" \o SubSeq(s, 3, 5) \o "..." \o SubSeq(s, Len(s) - 2, Len(s))

\* format!("{from_fmt} -> {to_fmt}, value: {value:?}")
LogRecord(e) ==
    ShortFmt(e.from) \o " -> " \o ShortFmt(e.to) \o ", value: " \o ToString(e.value)

(***************************************************************************)
(* Raw log entries returned by the chain.  An entry either decodes to a    *)
(* USDC::Transfer {from, to, value} or does not decode at all.             *)
(***************************************************************************)
Transfer(f, v) == [ok |-> TRUE, from |-> f, to |-> Receiver, value |-> v]
Undecodable == [ok |-> FALSE, from |-> Receiver, to |-> Receiver, value |-> 0]

Batches ==
    { << >>,
      << Transfer(Whale1, 2000000) >>,
      << Transfer(Whale1, 1000000) >>,
      << Transfer(Whale1, 500000), Transfer(Whale2, 2000000) >>,
      << Transfer(Whale1, 2000000), Transfer(Whale2, 2000000) >>,
      << Undecodable, Transfer(Whale1, 2000000) >>,
      << Transfer(Whale2, 2000000), Undecodable >>,
      << Transfer(Whale1, 2000000), Transfer(Whale2, 2000000), Undecodable >> }

\* a test that lets a transfer of exactly the threshold through
QualifiesFromThreshold(e) == e.value >= THRESHOLD

\* `if value > &U256::from(1_000_000)`
Qualifies(e) == e.value > THRESHOLD

NumQualifying(batch) == Cardinality({i \in 1..Len(batch) : batch[i].ok /\ Qualifies(batch[i])})

VARIABLES
    timer_id,    \* STATE.timer_id : Option<TimerId>
    logs,        \* STATE.logs : Vec<String>
    poll_count,  \* STATE.poll_count : usize
    NONCE,       \* NONCE : Option<u64>
    timers,      \* the interval timers created so far, indexed by TimerId
    starting,    \* start calls suspended in provider.watch_logs(&filter).await
    before,      \* logs and poll_count as the start call suspended last found
                 \* them (None when no start call is suspended)
    polling,     \* bag of the timers with a poll of the chain under way: the
                 \* tick has asked for the new logs, the callback is to come
    firings,     \* bag of callback invocations suspended inside a mint
    used,        \* nonces of this account the chain has accepted a transaction for
    confirmed,   \* nonces of the transactions a lookup of a mint has found
    work,        \* starts, firings and qualifying events so far (bounded)
    ev           \* the step last taken: operation, outcome, how it ended, nonce

vars == << timer_id, logs, poll_count, NONCE, timers, starting, before,
           polling, firings, used, confirmed, work, ev >>

\* A callback invocation suspended inside mint_new_whale_nft(target):
\*   timer   the timer that fired it
\*   rest    the entries of incoming_logs after the one being minted for
\*   pc      the await it is suspended at: "signer", "count", "send", "lookup"
\*   nonce   the local `nonce` (0 until it is chosen)
Mint(k, rest, target) ==
    [timer |-> k, rest |-> rest, target |-> target, pc |-> "signer", nonce |-> 0]

NoMint == [timer |-> 0, rest |-> << >>, target |-> Receiver, pc |-> "", nonce |-> 0]

\* op: "start", "stop", "tick", "callback", "signer", "count", "send", "lookup";
\* res: what the operation returned; fin: "returned", "suspended", "completed"
\* (the firing ran to its end) or "trapped"; nonce: the nonce of the mint
Event(op, res, fin, m) == [op |-> op, res |-> res, fin |-> fin, nonce |-> m.nonce]

\* State::default(), NONCE = None, no timer, no call in progress
Init ==
    /\ timer_id = None
    /\ logs = << >>
    /\ poll_count = 0
    /\ NONCE = None
    /\ timers = << >>
    /\ starting = 0
    /\ before = None
    /\ polling = EmptyBag
    /\ firings = EmptyBag
    /\ used = {}
    /\ confirmed = {}
    /\ work = 0
    /\ ev = Event("init", "", "", NoMint)

(***************************************************************************)
(* Status queries                                                          *)
(***************************************************************************)
\* watch_usdc_transfer_is_polling
is_polling == IsSome(timer_id)

\* watch_usdc_transfer_poll_count
get_poll_count == poll_count

\* format!("{log:?}") of a String: the string between double quotes (the
\* records hold no character that Debug escapes)
Debug(str) == "\"" \o str \o "\""

\* watch_usdc_transfer_get
get_logs == [i \in 1..Len(logs) |-> Debug(logs[i])]

(***************************************************************************)
(* The collaborators: the interval timer and the chain                     *)
(***************************************************************************)
\* The timer fires while it has not been cleared and has polled fewer than
\* its limit (`with_limit(Some(POLL_LIMIT))`).  A poll counts for the timer
\* when it is made, whatever becomes of the callback.
Scheduled(k) == timers[k].armed /\ timers[k].polls < POLL_LIMIT

\* a stop that takes the timer id and forgets to clear the timer
clear_timer_forgotten(ts, id) == ts

\* ic_cdk_timers::clear_timer(timer_id)
clear_timer(ts, id) == [ts EXCEPT ![id].armed = FALSE]

\* The account's transaction count: the first nonce the chain has not seen
\* (a transaction the chain accepts is taken as mined at once).
RECURSIVE FirstFree(_)
FirstFree(n) == IF n \in used THEN FirstFree(n + 1) ELSE n
TxCount == FirstFree(InitTxCount)

\* The chain can accept a transaction only with a nonce that is not below
\* the account's count and that no accepted transaction carries already.
Acceptable(n) == n >= TxCount /\ n \notin used

(***************************************************************************)
(* watch_usdc_transfer_start                                               *)
(***************************************************************************)
\* a start that never finds a watch running
AlreadyWatchingNever == FALSE

\* `if state.timer_id.is_some() { return Err("Already watching for logs.") }`
AlreadyWatching == IsSome(timer_id)

\* a start that does not save the id of the timer it created
SaveTimerIdLost(id) == None

\* `state.timer_id = Some(timer_id)`
SaveTimerId(id) == Some(id)

\* start while a timer id is stored: the early return of lines 138-140
StartRejected ==
    /\ AlreadyWatching
    /\ ev' = Event("start", "AlreadyWatching", "returned", NoMint)
    /\ UNCHANGED << timer_id, logs, poll_count, NONCE, timers, starting, before,
                    polling, firings, used, confirmed, work >>

\* lines 137-199: the test passes, logs and poll_count are cleared, and the
\* call suspends in provider.watch_logs(&filter).await
StartBegin ==
    /\ ~AlreadyWatching
    /\ work < MaxWork
    /\ logs' = << >>
    /\ poll_count' = 0
    /\ starting' = starting + 1
    /\ before' = Some([logs |-> logs, poll_count |-> poll_count])
    /\ work' = work + 1
    /\ ev' = Event("start", "", "suspended", NoMint)
    /\ UNCHANGED << timer_id, NONCE, timers, polling, firings, used, confirmed >>

\* lines 199-211: the filter is established, the poller starts its timer and
\* the timer id is saved
StartFinish ==
    /\ starting > 0
    /\ starting' = starting - 1
    /\ before' = IF starting' = 0 THEN None ELSE before
    /\ timers' = Append(timers, [armed |-> TRUE, polls |-> 0])
    /\ timer_id' = SaveTimerId(Len(timers) + 1)
    /\ ev' = Event("start", "Ok", "returned", NoMint)
    /\ UNCHANGED << logs, poll_count, NONCE, polling, firings, used, confirmed, work >>

\* line 199: watch_logs fails and `.unwrap()` panics
StartTrap ==
    /\ starting > 0
    /\ starting' = starting - 1
    /\ before' = IF starting' = 0 THEN None ELSE before
    /\ ev' = Event("start", "", "trapped", NoMint)
    /\ UNCHANGED << timer_id, logs, poll_count, NONCE, timers, polling, firings,
                    used, confirmed, work >>

(***************************************************************************)
(* watch_usdc_transfer_stop                                                *)
(***************************************************************************)
Stop ==
    IF IsSome(timer_id)
    THEN /\ timers' = clear_timer(timers, Unwrap(timer_id))
         /\ timer_id' = None
         /\ ev' = Event("stop", "Ok", "returned", NoMint)
         /\ UNCHANGED << logs, poll_count, NONCE, starting, before, polling, firings,
                         used, confirmed, work >>
    ELSE /\ ev' = Event("stop", "NoActiveWatch", "returned", NoMint)
         /\ UNCHANGED << timer_id, logs, poll_count, NONCE, timers, starting, before,
                         polling, firings, used, confirmed, work >>

(***************************************************************************)
(* The callback of lines 149-180                                           *)
(***************************************************************************)
\* The `for` loop from the entry at the head of `rest` up to where it leaves
\* the canister or ends: an entry that does not decode panics (line 152), an
\* entry above the threshold pushes its record and calls the mint (lines
\* 155-171), any other entry is passed over.
\* a mint sent to the receiver of the transfer
MintTargetTo(e) == e.to

\* `mint_new_whale_nft(*from)`
MintTarget(e) == e.from

RECURSIVE Scan(_, _)
Scan(lg, rest) ==
    IF rest = << >>
    THEN [kind |-> "end", logs |-> lg, target |-> Receiver, rest |-> << >>]
    ELSE LET e == Head(rest)
         IN  IF ~e.ok
             THEN [kind |-> "panic", logs |-> lg, target |-> Receiver, rest |-> << >>]
             ELSE IF Qualifies(e)
                  THEN [kind |-> "mint", logs |-> Append(lg, LogRecord(e)),
                        target |-> MintTarget(e), rest |-> Tail(rest)]
                  ELSE Scan(lg, Tail(rest))

\* `state.poll_count += 1`
CountPoll(n) == n + 1

\* `if state.poll_count >= POLL_LIMIT { state.timer_id.take(); }`
AfterPoll(n, tid) == IF n >= POLL_LIMIT THEN None ELSE tid

\* The callback runs on from `rest` inside the step of timer k's firing that
\* has just resumed (or has just been handed its logs).  `nonce1` is what the step has made of NONCE
\* so far; a panic rolls that back with everything else.
Resume(k, others, rest, nonce1, op, res, m) ==
    LET r == Scan(logs, rest)
    IN  CASE r.kind = "panic" ->
                /\ firings' = others
                /\ ev' = Event(op, res, "trapped", m)
                /\ UNCHANGED << timer_id, logs, poll_count, NONCE >>
          [] r.kind = "mint" ->
                /\ logs' = r.logs
                /\ NONCE' = nonce1
                /\ firings' = others (+) SetToBag({Mint(k, r.rest, r.target)})
                /\ ev' = Event(op, res, "suspended", m)
                /\ UNCHANGED << timer_id, poll_count >>
          [] r.kind = "end" ->
                /\ NONCE' = nonce1
                /\ poll_count' = CountPoll(poll_count)
                /\ timer_id' = AfterPoll(poll_count', timer_id)
                /\ firings' = others
                /\ ev' = Event(op, res, "completed", m)
                /\ UNCHANGED logs

\* Timer k ticks: the poller asks the chain for the new logs of the filter
\* and the poll is under way until the answer arrives.
Tick(k) ==
    /\ Scheduled(k)
    /\ work < MaxWork
    /\ timers' = [timers EXCEPT ![k].polls = @ + 1]
    /\ polling' = polling (+) SetToBag({k})
    /\ work' = work + 1
    /\ ev' = Event("tick", "", "suspended", NoMint)
    /\ UNCHANGED << timer_id, logs, poll_count, NONCE, starting, before, firings,
                    used, confirmed >>

\* The answer to a poll of timer k arrives and `batch` is handed to the
\* callback, whatever has become of the timer and of timer_id since the tick.
Callback(k, batch) ==
    /\ BagIn(k, polling)
    /\ work + NumQualifying(batch) <= MaxWork
    /\ polling' = polling (-) SetToBag({k})
    /\ work' = work + NumQualifying(batch)
    /\ Resume(k, firings, batch, NONCE, "callback", "", NoMint)
    /\ UNCHANGED << timers, starting, before, used, confirmed >>

(***************************************************************************)
(* mint_new_whale_nft                                                      *)
(***************************************************************************)
\* `maybe_nonce.map(|nonce| nonce + 1)`
PeekNext(cached) == IF IsSome(cached) THEN Some(Unwrap(cached) + 1) ELSE None

\* `tx.nonce` of the transaction found under the hash of the submission
TxNonce(f) == f.nonce

\* `*nonce = Some(tx.nonce)`
Advance(n) == Some(n)

\* a rejected submission that consumes its nonce in the cache
NonceConsumedOnSendError(cached, n) == Some(n)

\* `Err(e) => Err(format!("{:?}", e))`: NONCE is not written
NonceOnSendError(cached, n) == cached

\* `None => Err("Could not get transaction.")`: NONCE is not written
NonceOnLookupNone(cached, n) == cached

Replace(f, g) == (firings (-) SetToBag({f})) (+) SetToBag({g})

\* create_icp_signer().await returns; lines 71-93: the nonce is taken from
\* NONCE when it is there, else the call suspends in get_transaction_count
MintSigner(f) ==
    /\ f.pc = "signer"
    /\ LET next == PeekNext(NONCE)
           g == IF IsSome(next)
                THEN [f EXCEPT !.pc = "send", !.nonce = Unwrap(next)]
                ELSE [f EXCEPT !.pc = "count"]
       IN  /\ firings' = Replace(f, g)
           /\ ev' = Event("signer", "", "suspended", g)
    /\ UNCHANGED << timer_id, logs, poll_count, NONCE, timers, starting, before,
                    polling, used, confirmed, work >>

\* get_transaction_count(address).await.unwrap_or(0)
MintCount(f, ok) ==
    /\ f.pc = "count"
    /\ LET g == [f EXCEPT !.pc = "send", !.nonce = IF ok THEN TxCount ELSE 0]
       IN  /\ firings' = Replace(f, g)
           /\ ev' = Event("count", IF ok THEN "Ok" ELSE "Err", "suspended", g)
    /\ UNCHANGED << timer_id, logs, poll_count, NONCE, timers, starting, before,
                    polling, used, confirmed, work >>

\* .send().await returns: Ok(builder) and the call suspends in
\* get_transaction_by_hash, or Err(e) and the mint returns Err
MintSend(f, accepted) ==
    /\ f.pc = "send"
    /\ accepted => Acceptable(f.nonce)
    /\ IF accepted
       THEN LET g == [f EXCEPT !.pc = "lookup"]
            IN  /\ used' = used \cup {f.nonce}
                /\ firings' = Replace(f, g)
                /\ ev' = Event("send", "Ok", "suspended", g)
                /\ UNCHANGED << timer_id, logs, poll_count, NONCE >>
       ELSE /\ Resume(f.timer, firings (-) SetToBag({f}), f.rest,
                      NonceOnSendError(NONCE, f.nonce),
                      "send", "TransactionSendFailed", f)
            /\ UNCHANGED used
    /\ UNCHANGED << timers, starting, before, polling, confirmed, work >>

\* get_transaction_by_hash(node_hash).await returns: Err(_) and `.unwrap()`
\* panics, Ok(Some(tx)) and NONCE is written, Ok(None) and the mint returns Err
MintLookup(f, outcome) ==
    /\ f.pc = "lookup"
    /\ confirmed' = IF outcome = "found" THEN confirmed \cup {TxNonce(f)} ELSE confirmed
    /\ CASE outcome = "error" ->
                /\ firings' = firings (-) SetToBag({f})
                /\ ev' = Event("lookup", "", "trapped", f)
                /\ UNCHANGED << timer_id, logs, poll_count, NONCE >>
         [] outcome = "found" ->
                Resume(f.timer, firings (-) SetToBag({f}), f.rest,
                       Advance(TxNonce(f)), "lookup", "Ok", f)
         [] outcome = "absent" ->
                Resume(f.timer, firings (-) SetToBag({f}), f.rest,
                       NonceOnLookupNone(NONCE, f.nonce),
                       "lookup", "TransactionLookupFailed", f)
    /\ UNCHANGED << timers, starting, before, polling, used, work >>

Next ==
    \/ StartRejected
    \/ StartBegin
    \/ StartFinish
    \/ StartTrap
    \/ Stop
    \/ \E k \in 1..Len(timers) : Tick(k)
    \/ \E k \in BagToSet(polling), batch \in Batches : Callback(k, batch)
    \/ \E f \in BagToSet(firings) : MintSigner(f)
    \/ \E f \in BagToSet(firings), ok \in BOOLEAN : MintCount(f, ok)
    \/ \E f \in BagToSet(firings), accepted \in BOOLEAN : MintSend(f, accepted)
    \/ \E f \in BagToSet(firings), outcome \in {"found", "absent", "error"} :
            MintLookup(f, outcome)

Spec == Init /\ [][Next]_vars

(***************************************************************************)
(* What the claims speak of                                                *)
(***************************************************************************)
Timers == 1..Len(timers)
ScheduledTimers == {k \in Timers : Scheduled(k)}
InFlight(k) == \E f \in BagToSet(firings) : f.timer = k
MintInFlight(pcs) == \E f \in BagToSet(firings) : f.pc \in pcs

\* the number of callback invocations suspended at one of the awaits pcs
NumInFlight(pcs) ==
    LET B == BagOfAll(LAMBDA f : f.pc, firings)
    IN  BagCardinality([p \in (DOMAIN B) \cap pcs |-> B[p]])

\* the step last taken was a call of start reaching the test of lines 137-142
StartCalled == ev.op = "start" /\ (ev.fin = "suspended" \/ ev.res = "AlreadyWatching")
StartSucceeded == ev.op = "start" /\ ev.res = "Ok"
StopSucceeded == ev.op = "stop" /\ ev.res = "Ok"
StopFailed == ev.op = "stop" /\ ev.res = "NoActiveWatch"

\* C1: at most one watch is active: at most one timer is scheduled, a
\* scheduled timer is the one timer_id holds, and timer_id holds a timer only
\* while that timer is scheduled or still has a firing in progress.
OneActiveWatch ==
    /\ Cardinality(ScheduledTimers) <= 1
    /\ \A k \in ScheduledTimers : timer_id = Some(k)
    /\ IsSome(timer_id) => Scheduled(Unwrap(timer_id)) \/ InFlight(Unwrap(timer_id))

\* C2: is_polling() is true right after a successful start and false right
\* after a successful stop.
PollingAfterStartStop ==
    /\ StartSucceeded => is_polling
    /\ StopSucceeded => ~is_polling

\* C2: a stop has just succeeded (after the start that created the timer).
StoppedAfterStart ==
    /\ StopSucceeded
    /\ ~is_polling
    /\ Len(timers) >= 1

\* a start called while timer_id is Some, as one step
RejectedStartStep ==
    (IsSome(timer_id) /\ StartCalled') =>
        /\ ev'.res = "AlreadyWatching"
        /\ UNCHANGED << timer_id, poll_count, logs, timers, starting, polling,
                        firings, NONCE >>

\* C3: a start called while timer_id is Some returns AlreadyWatching and
\* changes neither timer_id, poll_count nor logs, schedules no timer and leaves
\* no call suspended.
RejectedStartIsNoOp == [][RejectedStartStep]_vars

\* C3: a start has just been rejected while the watch had a poll counted and
\* a record logged.
RejectedStartDuringWatch ==
    /\ ev.op = "start"
    /\ ev.res = "AlreadyWatching"
    /\ poll_count > 0
    /\ logs # << >>

\* a stop, as one step
StopStep ==
    /\ (ev'.op = "stop" /\ ~IsSome(timer_id)) =>
            /\ ev'.res = "NoActiveWatch"
            /\ UNCHANGED << timer_id, poll_count, logs, timers, starting, polling,
                            firings, NONCE >>
    /\ (ev'.op = "stop" /\ IsSome(timer_id)) =>
            /\ ev'.res = "Ok"
            /\ timer_id' = None
            /\ ~timers'[Unwrap(timer_id)].armed
            /\ \A k \in Timers : ~Scheduled(k)' => k = Unwrap(timer_id) \/ ~Scheduled(k)
            /\ UNCHANGED << poll_count, logs >>
    /\ (StopSucceeded /\ ev'.op = "stop") => ev'.res = "NoActiveWatch"

\* C4: a stop with timer_id None returns NoActiveWatch and changes nothing; a
\* stop with timer_id Some succeeds, cancels that timer (and no other) and
\* clears timer_id, so that a stop right after a successful stop fails.
StopContract == [][StopStep]_vars

\* C4: a stop has just failed although a watch was started and stopped before.
SecondStopFails ==
    /\ StopFailed
    /\ Len(timers) >= 1
    /\ ~timers[Len(timers)].armed

\* C5: poll_count is 0 right after a successful start, and once it has
\* reached the limit the watch is idle and no timer is left to fire.
PollCountContract ==
    /\ StartSucceeded => poll_count = 0
    /\ poll_count >= POLL_LIMIT => ~is_polling /\ ScheduledTimers = {}

\* nothing is left to run: no start is suspended, no poll is under way, no
\* firing is in progress and every timer has fired its POLL_LIMIT times or was
\* cancelled
Quiescent ==
    starting = 0 /\ polling = EmptyBag /\ firings = EmptyBag /\ ScheduledTimers = {}

\* C6: auto-termination is unconditional: when the firings of the watch are
\* over the watch is idle, whatever the firings met.
AutoTerminationUnconditional == Quiescent => ~is_polling

\* C7: poll_count never exceeds the poll limit, and no timer fires more than
\* POLL_LIMIT times.
BoundedPollCount ==
    /\ poll_count <= POLL_LIMIT
    /\ \A k \in Timers : timers[k].polls <= POLL_LIMIT

MintOps == {"signer", "count", "send", "lookup"}
\* the lookup of a mint has just found its transaction: the mint returns Ok
MintSucceeded == ev.op = "lookup" /\ ev.res = "Ok"
MintFailed == ev.res \in {"TransactionSendFailed", "TransactionLookupFailed"}

\* a mint has just been handed its nonce from the cache while no other mint
\* stands between its nonce and the write of the cache
HandedOutInSequence ==
    /\ ev.op = "signer"
    /\ IsSome(NONCE)
    /\ NumInFlight({"send", "lookup"}) = 1

\* a mint that finds the cache present uses cached_nonce + 1
UsesCachePlusOne ==
    (ev.op = "signer" /\ IsSome(NONCE)) =>
        /\ ev.nonce = Unwrap(NONCE) + 1
        /\ \E f \in BagToSet(firings) : f.pc = "send" /\ f.nonce = Unwrap(NONCE) + 1

\* C8: a mint that finds the cache present uses cached_nonce + 1; every mint
\* that succeeds leaves its confirmed nonce n in the cache, from which the
\* next nonce handed out is n + 1; and the nonce handed out to a mint that
\* runs after the successful mints before it is strictly greater than every
\* nonce they were confirmed with.
NonceAdvances ==
    /\ UsesCachePlusOne
    /\ MintSucceeded =>
            /\ NONCE = Some(ev.nonce)
            /\ PeekNext(NONCE) = Some(ev.nonce + 1)
    /\ HandedOutInSequence => \A n \in confirmed : ev.nonce > n

\* a step of a mint that is not its successful lookup
FailedMintStep ==
    (ev'.op \in MintOps /\ ~(ev'.op = "lookup" /\ ev'.res = "Ok")) => NONCE' = NONCE

\* C9: no step of a mint other than the successful lookup writes NONCE; in
\* particular the cache after a rejected submission or a lookup that finds
\* nothing is the cache before it.
FailedMintKeepsNonce == [][FailedMintStep]_vars

\* C9: a mint has just failed while the cache held the nonce before its own.
MintFailedWithCache ==
    /\ MintFailed
    /\ IsSome(NONCE)
    /\ ev.nonce = Unwrap(NONCE) + 1

Highest(S) == CHOOSE n \in S : \A m \in S : m <= n

\* C10: whenever no mint is between its submission and its lookup, a cache
\* that is present holds the highest nonce the chain has accepted from this
\* account.
NonceTracksChain ==
    (IsSome(NONCE) /\ ~MintInFlight({"lookup"})) =>
        /\ used # {}
        /\ Unwrap(NONCE) = Highest(used)

(***************************************************************************)
(* The records and the mints of a firing                                   *)
(***************************************************************************)
\* the entries the callback may be going through in the step: the batch it
\* is handed, or what is left to a firing that resumes
Pending == IF ev'.op = "callback" THEN Batches ELSE {f.rest : f \in BagToSet(firings)}

Above(e) == e.ok /\ e.value > THRESHOLD
NotAbove(e) == e.ok /\ e.value <= THRESHOLD

\* the step passes over entries 1..i-1 of src, none above the threshold, and
\* pushes the record of entry i, which is above it
PushesRecordOf(src, i) ==
    /\ Above(src[i])
    /\ \A j \in 1..(i - 1) : NotAbove(src[j])
    /\ logs' = Append(logs, LogRecord(src[i]))

\* the step goes through src to its end and finds no entry above the threshold
PassesOver(src) == \A j \in 1..Len(src) : NotAbove(src[j])

\* the records a query may ever show: those of the transfers above the threshold
AboveRecords ==
    UNION {{Debug(LogRecord(b[i])) : i \in {j \in 1..Len(b) : Above(b[j])}} :
           b \in Batches}

\* what a step does to logs
LogsStep ==
    /\ \/ logs' = logs
       \/ logs' = << >> /\ ev'.op = "start" /\ ev'.fin = "suspended"
       \/ \E src \in Pending : \E i \in 1..Len(src) : PushesRecordOf(src, i)
    /\ (ev'.fin = "completed") =>
            /\ logs' = logs
            /\ \E src \in Pending : PassesOver(src)
    /\ \A i \in 1..Len(get_logs') : get_logs'[i] \in AboveRecords

\* C11: get_logs() holds only records of transfers above the threshold: a
\* step of the callback appends the record of the next decoded entry above
\* the threshold, after passing over entries at or below it only, and a
\* firing that reaches its end has left no such entry behind.
OnlyAboveThresholdLogged == [][LogsStep]_vars

\* C11: a firing was handed two transfers above the threshold and get_logs()
\* shows their two records in the order of the batch.
TwoRecordsInOrder ==
    get_logs = << Debug(LogRecord(Transfer(Whale1, 2000000))),
                  Debug(LogRecord(Transfer(Whale2, 2000000))) >>

\* the mints the step issues: the tasks that stand at the first await of
\* mint_new_whale_nft after the step and did not before it
Issued == {f \in BagToSet(firings') :
              f.pc = "signer" /\ CopiesIn(f, firings') > CopiesIn(f, firings)}

\* the step pushes the record of entry i of src and issues the mint of its
\* sender, and that mint only
MintsSenderOf(src, i) ==
    /\ PushesRecordOf(src, i)
    /\ \E f \in Issued :
          /\ Issued = {f}
          /\ CopiesIn(f, firings') = CopiesIn(f, firings) + 1
          /\ f.target = src[i].from
          /\ f.rest = SubSeq(src, i + 1, Len(src))

MintsStep ==
    IF Len(logs') = Len(logs) + 1
    THEN \E src \in Pending : \E i \in 1..Len(src) : MintsSenderOf(src, i)
    ELSE Issued = {}

\* C12: a step of the callback issues one mint, to the sender of the transfer,
\* exactly when it pushes the record of a transfer above the threshold, and
\* issues none otherwise.
OneMintPerQualifyingEvent == [][MintsStep]_vars

\* C12: a firing was handed the batch (500,000 from Whale1; 2,000,000 from
\* Whale2): one record is logged and one mint, to Whale2, is in flight.
OneMintForMixedBatch ==
    /\ ev.op = "callback"
    /\ logs = << LogRecord(Transfer(Whale2, 2000000)) >>
    /\ BagCardinality(firings) = 1
    /\ \E f \in BagToSet(firings) :
          f.target = Whale2 /\ f.rest = << >> /\ f.pc = "signer"

(***************************************************************************)
(* Firings in progress                                                     *)
(***************************************************************************)
\* C13: the pipeline is serialized: at most one firing is in progress at any
\* time, and at most one mint stands between choosing its nonce and writing
\* the cache.
PipelineSerialized ==
    /\ BagCardinality(firings) <= 1
    /\ NumInFlight({"send", "lookup"}) <= 1

(***************************************************************************)
(* Failures inside a firing                                                *)
(***************************************************************************)
\* the step is the end of a mint that failed: the submission was rejected,
\* the lookup found nothing, or the lookup itself failed
MintFails == ev'.op \in {"send", "lookup"} /\ ev'.res # "Ok"

\* the firing f resumes in the step
Resumes(f) == f.pc = ev'.op /\ CopiesIn(f, firings') < CopiesIn(f, firings)

\* the callback goes on through src: it pushes the record and issues the
\* mint of the next transfer above the threshold, or reaches the end of the
\* batch and counts the poll
GoesOn(src) ==
    \/ /\ \E i \in 1..Len(src) : MintsSenderOf(src, i)
       /\ UNCHANGED << timer_id, poll_count >>
    \/ /\ PassesOver(src)
       /\ poll_count' = poll_count + 1
       /\ timer_id' = IF poll_count' >= POLL_LIMIT THEN None ELSE timer_id
       /\ logs' = logs

\* the callback meets an entry of src that does not decode before any
\* transfer above the threshold
MeetsUndecodable(src) ==
    \E i \in 1..Len(src) : ~src[i].ok /\ \A j \in 1..(i - 1) : NotAbove(src[j])

FailedMintContainedStep ==
    MintFails =>
        \E f \in BagToSet(firings) :
            /\ Resumes(f)
            /\ timers' = timers
            /\ SubSeq(logs', 1, Len(logs)) = logs
            /\ GoesOn(f.rest) \/ MeetsUndecodable(f.rest)

\* C14: a failing mint is contained in its firing: the records logged so far
\* stay, no timer is cancelled, timer_id is cleared by the poll limit only, and
\* the firing goes on with the entries left, to the next mint or to the
\* increment of poll_count (unless it meets an entry that does not decode).
FailedMintContained == [][FailedMintContainedStep]_vars

(***************************************************************************)
(* stop and the firings in progress                                        *)
(***************************************************************************)
Cancelled(k) == ~timers[k].armed

\* the step is the end of the mint a firing was suspended in: the submission
\* was rejected or the lookup has answered
MintEnds == ev'.op = "lookup" \/ (ev'.op = "send" /\ ev'.res # "Ok")

\* a successful stop cancels the timer of the watch and touches neither a poll
\* under way nor a firing in progress, and a cancelled timer never ticks again
StopCancelsStep ==
    /\ (ev'.op = "stop" /\ ev'.res = "Ok") =>
            /\ firings' = firings
            /\ polling' = polling
            /\ ~timers'[Unwrap(timer_id)].armed
    /\ \A k \in 1..Len(timers) :
            Cancelled(k) =>
                /\ timers'[k] = timers[k]
                /\ CopiesIn(k, polling') <= CopiesIn(k, polling)

\* a firing of a cancelled timer whose mint ends goes on through the rest of
\* its batch, to the next mint or to the increment of poll_count and the test
\* of the limit
StoppedFiringGoesOnStep ==
    \A f \in BagToSet(firings) :
        (Cancelled(f.timer) /\ Resumes(f) /\ MintEnds) => GoesOn(f.rest)

StopCancels == [][StopCancelsStep]_vars

\* C15: stop does not interrupt a firing in progress: the firing stays
\* suspended where it is, and when its mint ends it goes through the rest of
\* its batch to the increment of poll_count and the test of the limit; the
\* timer a successful stop cancelled never ticks again.
StopLetsFiringFinish == [][StopCancelsStep /\ StoppedFiringGoesOnStep]_vars

\* the step last taken aborted a firing on an entry that does not decode:
\* the callback began or resumed from a mint that had returned, and panicked
AbortedOnDecode ==
    /\ ev.fin = "trapped"
    /\ \/ ev.op = "callback"
       \/ ev.op = "send" /\ ev.res = "TransactionSendFailed"
       \/ ev.op = "lookup" /\ ev.res \in {"Ok", "TransactionLookupFailed"}

\* C16: an entry that does not decode does not abort the firing: the callback
\* skips it, goes on to the entries after it and reaches the increment of
\* poll_count, so no firing ends on such an entry.
DecodeFailureIsolated == ~AbortedOnDecode

(***************************************************************************)
(* What resets poll_count and logs                                         *)
(***************************************************************************)
IsPrefix(s, t) == Len(s) <= Len(t) /\ SubSeq(t, 1, Len(s)) = s

\* the step is the first of a start call that passed the test of lines
\* 137-142: the one that runs lines 183-186
StartResets == ev'.op = "start" /\ ev'.fin = "suspended"

\* the step is the end of a start call whose watch_logs failed
StartFails == ev'.op = "start" /\ ev'.fin = "trapped"

\* steps other than the reset of a start keep the records and the count
KeepsLogsAndCount ==
    /\ ~StartResets => IsPrefix(logs, logs') /\ poll_count' >= poll_count
    /\ (ev'.op = "stop" \/ ev'.res = "AlreadyWatching") =>
            UNCHANGED << logs, poll_count >>
    /\ (ev'.fin = "completed" /\ poll_count' >= POLL_LIMIT) =>
            logs' = logs /\ poll_count' = poll_count + 1

\* a start call that fails leaves the records and the count it found (but for
\* what firings have added since)
FailedStartKeeps ==
    StartFails =>
        /\ IsPrefix(Unwrap(before).logs, logs')
        /\ poll_count' >= Unwrap(before).poll_count

FrameOfLogsAndCount == [][KeepsLogsAndCount]_vars

\* C17: poll_count and logs are reset by a start that begins a new watch and by
\* nothing else: every other step only appends to logs and never lowers
\* poll_count, stop, auto-termination and a rejected start leave both as they
\* are, and so does a start whose filter cannot be established.
ResetOnlyByNewWatch == [][KeepsLogsAndCount /\ FailedStartKeeps]_vars

(***************************************************************************)
(* What a query sees of a firing                                           *)
(***************************************************************************)
\* the answers of the three queries, which may be served between any two steps
QueryView == << is_polling, get_poll_count, get_logs >>

\* the step belongs to a firing and leaves it in progress (suspended in a
\* mint) or aborts it
PartOfFiring ==
    /\ ev'.op \in {"tick", "callback", "signer", "count", "send", "lookup"}
    /\ ev'.fin # "completed"

\* C18: the queries never observe a partially completed firing: their answers
\* change by a firing only in the step that completes it, with the increment of
\* poll_count, so a query served while a firing is suspended in a mint answers
\* as of the last completed firing.
QueriesSeeCompletedFirings == [][PartOfFiring => QueryView' = QueryView]_vars

(***************************************************************************)
(* Firings of a stopped watch                                              *)
(***************************************************************************)
\* f is a firing of a timer that was cancelled, and another watch is active
Stale(f) ==
    /\ Cancelled(f.timer)
    /\ IsSome(timer_id)
    /\ Unwrap(timer_id) # f.timer

\* a firing of a stopped watch leaves the watch started since as it is
StaleFiringStep ==
    \A f \in BagToSet(firings) :
        (Stale(f) /\ Resumes(f)) => UNCHANGED << logs, poll_count, timer_id >>

\* the step drops the timer id on reaching the limit: that timer is done
DropsOnlySpentTimer ==
    (ev'.fin = "completed" /\ IsSome(timer_id) /\ timer_id' = None) =>
        LET k == Unwrap(timer_id)
        IN  ~(timers'[k].armed /\ timers'[k].polls < POLL_LIMIT)

\* timer_id is dropped at the limit only when its timer has no firing left
TimerIdDroppedWhenSpent == [][DropsOnlySpentTimer]_vars

\* C19: a firing of a watch that has been stopped does not touch the watch
\* started after it: when it resumes it appends nothing to logs, does not
\* increment poll_count and does not clear timer_id.
StaleFiringHarmless == [][StaleFiringStep]_vars
====
